---------------------------- MODULE Spec2Model ----------------------------
(***************************************************************************)
(* rrply (src/main.go): the playback session of the console player.        *)
(*                                                                         *)
(* One step of the model is one access to shared state or one call of an   *)
(* external collaborator (the audio engine, the remote station), in the    *)
(* order the source makes them.  The goroutines of the program are:        *)
(*   - main: startup, then the playing loop (lines 126-287);               *)
(*   - one Play goroutine per track (line 277);                            *)
(*   - one Pause or Resume goroutine per key press (lines 363, 365);       *)
(*   - one FetchAudioToken goroutine per finished chunk (line 282);        *)
(*   - the signal goroutine (lines 147-152).                               *)
(* Nothing in the source synchronises them: rr.Status, rr.AudioToken and   *)
(* rr.CurrentTrack are plain fields of the global rr.  A Go string is two  *)
(* machine words (pointer, length), so a string store that races with a    *)
(* load may be seen half done; strings are modelled as those two words.    *)
(* Track lengths are modelled in whole seconds.                            *)
(***************************************************************************)
EXTENDS Naturals, Sequences, FiniteSets, Bags, TLC

\* ---------------------------------------------------------------- bounds
\* Inputs one run of the model takes: chunk requests, tracks handed out by
\* the station, key presses, a signal.
MaxEvents == 3
\* Longest track, in seconds.
MaxLen == 1

\* ----------------------------------------------------- program constants
PLAY == 256
PAUSE == 512
STOP == 768

\* ---------------------------------------------------------------- state
VARIABLES
  mpc,          \* position of the main goroutine
  exited,       \* "run", or how the process ended
  Status,       \* rr.Status
  AudioToken,   \* rr.AudioToken, a string
  CurrentChunk, \* rr.CurrentChunk: [Tracks, Length]
  CurrentTrack, \* rr.CurrentTrack.Url, a string
  idx,          \* index of the range loop over CurrentChunk.Tracks
  counter,      \* Sleep's local counter
  vlcPlayer,    \* the audio engine behind rr.vlcPlayer
  plays,        \* bag of Play goroutines in flight
  keys,         \* bag of Pause/Resume goroutines in flight
  refr,         \* bag of FetchAudioToken goroutines in flight
  sig,          \* position of the signal goroutine
  fetches,      \* chunk requests issued so far
  issued,       \* token requests made to the station so far
  handed,       \* tracks handed out by the station so far
  presses,      \* key presses delivered so far
  usedToken,    \* the token the last chunk request carried
  wait,         \* record of the current duration wait
  acct,         \* engine loads, waits and PLAYING ticks since the last chunk request
  pair,         \* key presses in a row since status was PLAYING with nothing else in flight
  failed,       \* a token or chunk fetch has failed
  budget        \* inputs this run may take

vars == <<mpc, exited, Status, AudioToken, CurrentChunk, CurrentTrack, idx,
          counter, vlcPlayer, plays, keys, refr, sig, fetches, issued, handed,
          presses, usedToken, wait, acct, pair, failed, budget>>

\* ---------------------------------------------------------------- values
\* A string as Go stores it: pointer and length.  Str(n) is string number n;
\* Str(0) is the empty string.  Different strings differ in both words, so a
\* half-done store shows as ptr # len.
Str(n) == [ptr |-> n, len |-> n]

\* A store of string v over x, one word done.
HalfStored(x, v) == {[x EXCEPT !.ptr = v.ptr], [x EXCEPT !.len = v.len]}

\* A track of a chunk: its length and whether it has an asset (Assets[0]).
Track == [length : 0..MaxLen, assets : BOOLEAN]

RECURSIVE SeqsUpTo(_)
SeqsUpTo(n) ==
  IF n = 0 THEN {<<>>}
  ELSE LET shorter == SeqsUpTo(n - 1)
       IN  shorter \cup {Append(s, t) : s \in {q \in shorter : Len(q) = n - 1}, t \in Track}

\* What the station may answer a chunk request with, n tracks at most.
Chunks(n) == SeqsUpTo(n)

\* The URL (a string number) of the first asset of track i of the f-th chunk.
UrlOf(f, i) == f * (MaxEvents + 2) + i

Add(b, e) == b (+) SetToBag({e})
Rem(b, e) == b (-) SetToBag({e})

Running == exited = "run"

\* Inputs the run has taken so far.
Events == fetches + handed + presses + (IF sig \in {"off", "wait"} THEN 0 ELSE 1)

\* The run may take one more input.
Room == Events < budget

\* ------------------------------------------------------------ the engine
\* rr.vlcPlayer.  loaded: a load has been issued and no stop has followed it;
\* playing: play has been issued since the last stop; paused: the pause flag,
\* which the engine takes only while it plays; media: the URL last loaded.
EngineInit == [loaded |-> FALSE, playing |-> FALSE, paused |-> FALSE,
               media |-> Str(0), released |-> FALSE]

EngineStop(e) == [e EXCEPT !.loaded = FALSE, !.playing = FALSE, !.paused = FALSE]

EngineLoad(e, url) == [e EXCEPT !.loaded = TRUE, !.media = url]

EnginePlay(e) == [e EXCEPT !.playing = TRUE, !.paused = FALSE]

EngineSetPause(e, b) == IF e.playing THEN [e EXCEPT !.paused = b] ELSE e

EngineRelease(e) == [e EXCEPT !.released = TRUE]

\* An error that is logged and returned from, the process going on.
LogAndReturn == "run"

\* log.Fatal: the message, then os.Exit(1); deferred calls do not run.
LogFatal == "fatal"

\* A page whose markup carries an empty token.
EmptyToken(n) == 0

\* The token (a string number) of the n-th landing page that carries one:
\* the pattern of line 424 matches one or more characters of [a-z0-9], so the
\* token is never the empty string.
NewToken(n) == n

\* ----------------------------------------------------------------- Init
\* The zero value of rr (line 87) after rr.Init() has made the engine.
Start ==
  /\ mpc = "token"
  /\ exited = "run"
  /\ Status = 0
  /\ AudioToken = Str(0)
  /\ CurrentChunk = [Tracks |-> <<>>, Length |-> 0]
  /\ CurrentTrack = Str(0)
  /\ idx = 0
  /\ counter = 0
  /\ vlcPlayer = EngineInit
  /\ plays = EmptyBag
  /\ keys = EmptyBag
  /\ refr = EmptyBag
  /\ sig = "off"
  /\ fetches = 0
  /\ issued = 0
  /\ handed = 0
  /\ presses = 0
  /\ usedToken = Str(0)
  /\ wait = [len |-> 0, ticks |-> 0, paused |-> FALSE, done |-> TRUE]
  /\ acct = [loads |-> 0, waits |-> 0, ticks |-> 0]
  /\ pair = 0
  /\ failed = FALSE

Init == Start /\ budget = MaxEvents

\* The same program, its run taking one more input.
InitWide == Start /\ budget = MaxEvents + 1

\* ------------------------------------------------- main: startup (126-264)
\* rr.FetchAudioToken() called by main itself (line 139): no other goroutine
\* exists yet.  A transport failure or a page without the token is fatal.
StartupToken ==
  /\ Running /\ mpc = "token"
  /\ issued' = issued + 1
  /\ \/ /\ AudioToken' = Str(NewToken(issued + 1))
        /\ mpc' = "setup"
        /\ UNCHANGED <<exited, failed>>
     \/ /\ failed' = TRUE
        /\ exited' = LogFatal
        /\ mpc' = "setup"
        /\ UNCHANGED AudioToken
  /\ UNCHANGED <<Status, CurrentChunk, CurrentTrack, idx, counter, vlcPlayer,
                 plays, keys, refr, sig, fetches, handed, presses, usedToken,
                 wait, acct, pair,
                 budget>>

\* Lines 141-264: the signal goroutine, the key binding and its event
\* goroutine are started, the channel is chosen.  Each of these steps ends
\* the process with log.Fatal when it fails.
Setup ==
  /\ Running /\ mpc = "setup"
  /\ \/ /\ mpc' = "fetch"
        /\ sig' = "wait"
        /\ UNCHANGED exited
     \/ /\ exited' = LogFatal
        /\ UNCHANGED <<mpc, sig>>
  /\ UNCHANGED <<Status, AudioToken, CurrentChunk, CurrentTrack, idx, counter,
                 vlcPlayer, plays, keys, refr, fetches, issued, handed, presses,
                 usedToken, wait, acct, pair, failed,
                 budget>>

\* ------------------------------------------ main: the playing loop (268-283)
\* A chunk fetch that waits for the token refresh to finish.
FetchAfterRefresh == refr = EmptyBag

\* Whether FetchChannelInfo may go ahead: it takes no lock and waits for
\* nothing (lines 455-462).
FetchReady == TRUE

\* The token a chunk request carries: rr.AudioToken as read at line 461.
TokenAtFetch == AudioToken

\* FetchChannelInfo, lines 455-462: the guard on the token, then the request.
FetchChannelInfoCall ==
  /\ Running /\ mpc = "fetch" /\ Room
  /\ FetchReady
  /\ IF AudioToken.len = 0
       THEN /\ exited' = LogFatal
            /\ UNCHANGED <<mpc, fetches, usedToken, acct>>
       ELSE /\ usedToken' = TokenAtFetch
            /\ fetches' = fetches + 1
            /\ acct' = [loads |-> 0, waits |-> 0, ticks |-> 0]
            /\ mpc' = "recv"
            /\ UNCHANGED exited
  /\ UNCHANGED <<Status, AudioToken, CurrentChunk, CurrentTrack, idx, counter,
                 vlcPlayer, plays, keys, refr, sig, issued, handed, presses, wait,
                 pair, failed,
                 budget>>

RECURSIVE SumLength(_)
SumLength(tracks) ==
  IF tracks = <<>> THEN 0
  ELSE tracks[1].length + SumLength(Tail(tracks))

\* Where the loop goes with a chunk in hand: its first track, or, with no
\* track left, the token refresh of line 282.
AfterChunk(tracks) == IF tracks = <<>> THEN "refresh" ELSE "stop_eng"

\* FetchChannelInfo, lines 463-482: the answer.  A transport failure, an
\* unreadable body or a body that is not the expected JSON is fatal; else the
\* chunk replaces rr.CurrentChunk and its Length is summed.
FetchChannelInfoRecv ==
  /\ Running /\ mpc = "recv"
  /\ \/ \E tracks \in Chunks(budget - Events) :
          /\ CurrentChunk' = [Tracks |-> tracks, Length |-> SumLength(tracks)]
          /\ handed' = handed + Len(tracks)
          /\ idx' = 1
          /\ mpc' = AfterChunk(tracks)
          /\ UNCHANGED <<exited, failed>>
     \/ /\ failed' = TRUE
        /\ exited' = LogFatal
        /\ idx' = 1
        /\ mpc' = AfterChunk(CurrentChunk.Tracks)
        /\ UNCHANGED <<CurrentChunk, handed>>
  /\ UNCHANGED <<Status, AudioToken, CurrentTrack, counter, vlcPlayer, plays,
                 keys, refr, sig, fetches, issued, presses, usedToken, wait,
                 acct, pair,
                 budget>>

\* rr.Stop() of line 273, its engine call (line 525).
TrackStopEngine ==
  /\ Running /\ mpc = "stop_eng"
  /\ vlcPlayer' = EngineStop(vlcPlayer)
  /\ mpc' = "stop_st"
  /\ UNCHANGED <<exited, Status, AudioToken, CurrentChunk, CurrentTrack, idx,
                 counter, plays, keys, refr, sig, fetches, issued, handed, presses,
                 usedToken, wait, acct, pair, failed,
                 budget>>

\* rr.Stop() of line 273, its status write (line 526).
TrackStopStatus ==
  /\ Running /\ mpc = "stop_st"
  /\ Status' = STOP
  /\ pair' = 0
  /\ mpc' = "track"
  /\ UNCHANGED <<exited, AudioToken, CurrentChunk, CurrentTrack, idx, counter,
                 vlcPlayer, plays, keys, refr, sig, fetches, issued, handed, presses,
                 usedToken, wait, acct, failed,
                 budget>>

\* Line 275, rr.CurrentTrack = track.Content.Assets[0]: with no asset the
\* index panics and main unwinds into the deferred ReleasePlayer; else the
\* first word of the string is stored.
TrackAssign ==
  /\ Running /\ mpc = "track"
  /\ IF CurrentChunk.Tracks[idx].assets
       THEN /\ CurrentTrack' \in HalfStored(CurrentTrack, Str(UrlOf(fetches, idx)))
            /\ mpc' = "play"
       ELSE /\ mpc' = "release"
            /\ UNCHANGED CurrentTrack
  /\ UNCHANGED <<exited, Status, AudioToken, CurrentChunk, idx, counter,
                 vlcPlayer, plays, keys, refr, sig, fetches, issued, handed, presses,
                 usedToken, wait, acct, pair, failed,
                 budget>>

\* Lines 275-278: the store of rr.CurrentTrack completes, the Play goroutine
\* is started (go rr.Play()) and Sleep is entered with its counter at zero.
TrackPlay ==
  /\ Running /\ mpc = "play"
  /\ CurrentTrack' = Str(UrlOf(fetches, idx))
  /\ plays' = Add(plays, [pc |-> "url", url |-> Str(0), track |-> UrlOf(fetches, idx)])
  /\ counter' = 0
  /\ wait' = [len |-> CurrentChunk.Tracks[idx].length, ticks |-> 0,
              paused |-> FALSE, done |-> FALSE]
  /\ mpc' = "sleep"
  /\ UNCHANGED <<exited, Status, AudioToken, CurrentChunk, idx, vlcPlayer,
                 keys, refr, sig, fetches, issued, handed, presses, usedToken, acct,
                 pair, failed,
                 budget>>

\* A Sleep that counts every second, whatever the status.
SleepCountAlways(c, st) == c + 1

\* Sleep, lines 535-537: the counter after a tick that read status st.
SleepCount(c, st) == IF st = PLAY THEN c + 1 ELSE c

\* A Sleep that returns one counted second early.
SleepOverEarly(c, s) == c + 1 >= s

\* Sleep, lines 538-540: whether the loop breaks, the counter being c.
SleepOver(c, s) == c >= s

\* Sleep, one turn of its loop (lines 534-540): a second passes, the status
\* is read, and the wait is over once the counter has reached the length.
\* When it is over the range loop takes the next track, or line 282 follows.
SleepTick ==
  /\ Running /\ mpc = "sleep"
  /\ counter' = SleepCount(counter, Status)
  /\ LET over == SleepOver(counter', CurrentChunk.Tracks[idx].length)
         seen == IF Status = PLAY THEN 1 ELSE 0
     IN  /\ wait' = [wait EXCEPT !.ticks = @ + seen,
                                 !.paused = @ \/ Status = PAUSE,
                                 !.done = over]
         /\ acct' = [acct EXCEPT !.ticks = @ + seen,
                                 !.waits = IF over THEN @ + 1 ELSE @]
         /\ IF ~over
              THEN UNCHANGED <<mpc, idx>>
              ELSE IF idx < Len(CurrentChunk.Tracks)
                     THEN /\ idx' = idx + 1
                          /\ mpc' = "stop_eng"
                     ELSE /\ mpc' = "refresh"
                          /\ UNCHANGED idx
  /\ UNCHANGED <<exited, Status, AudioToken, CurrentChunk, CurrentTrack,
                 vlcPlayer, plays, keys, refr, sig, fetches, issued, handed, presses,
                 usedToken, pair, failed,
                 budget>>

\* Lines 281-282: go rr.FetchAudioToken(), and back to the top of the loop.
SpawnRefresh ==
  /\ Running /\ mpc = "refresh"
  /\ refr' = Add(refr, [pc |-> "get", tok |-> 0])
  /\ mpc' = "fetch"
  /\ UNCHANGED <<exited, Status, AudioToken, CurrentChunk, CurrentTrack, idx,
                 counter, vlcPlayer, plays, keys, sig, fetches, issued, handed,
                 presses, usedToken, wait, acct, pair, failed,
                 budget>>

\* The deferred rr.ReleasePlayer() (lines 141, 401-405) that a panic of main
\* runs: vlcPlayer.Stop().
ReleaseStop ==
  /\ Running /\ mpc = "release"
  /\ vlcPlayer' = EngineStop(vlcPlayer)
  /\ mpc' = "released"
  /\ UNCHANGED <<exited, Status, AudioToken, CurrentChunk, CurrentTrack, idx,
                 counter, plays, keys, refr, sig, fetches, issued, handed, presses,
                 usedToken, wait, acct, pair, failed,
                 budget>>

\* ReleasePlayer, lines 403-404, and the end of the panicking process.
ReleaseEngine ==
  /\ Running /\ mpc = "released"
  /\ vlcPlayer' = EngineRelease(vlcPlayer)
  /\ exited' = "panic"
  /\ UNCHANGED <<mpc, Status, AudioToken, CurrentChunk, CurrentTrack, idx,
                 counter, plays, keys, refr, sig, fetches, issued, handed, presses,
                 usedToken, wait, acct, pair, failed,
                 budget>>

\* -------------------------------------------------- Play goroutine (486-507)
\* g with its position moved to pc.
At(g, pc) == [g EXCEPT !.pc = pc]

\* Line 489: the read of rr.CurrentTrack.Url, both words as they are now.
PlayUrl(g) ==
  /\ Running /\ g.pc = "url"
  /\ plays' = Add(Rem(plays, g), [At(g, "load") EXCEPT !.url = CurrentTrack])
  /\ UNCHANGED <<mpc, exited, Status, AudioToken, CurrentChunk, CurrentTrack,
                 idx, counter, vlcPlayer, keys, refr, sig, fetches, issued, handed,
                 presses, usedToken, wait, acct, pair, failed,
                 budget>>

\* Lines 490-493: LoadMediaFromURL; an error of the engine is fatal.
PlayLoad(g) ==
  /\ Running /\ g.pc = "load"
  /\ \/ /\ vlcPlayer' = EngineLoad(vlcPlayer, g.url)
        /\ acct' = [acct EXCEPT !.loads = @ + 1]
        /\ plays' = Add(Rem(plays, g), At(g, "play"))
        /\ UNCHANGED exited
     \/ /\ exited' = LogFatal
        /\ plays' = Rem(plays, g)
        /\ UNCHANGED <<vlcPlayer, acct>>
  /\ UNCHANGED <<mpc, Status, AudioToken, CurrentChunk, CurrentTrack, idx,
                 counter, keys, refr, sig, fetches, issued, handed, presses,
                 usedToken, wait, pair, failed,
                 budget>>

\* Lines 496-499: vlcPlayer.Play(); an error of the engine is fatal.
PlayPlay(g) ==
  /\ Running /\ g.pc = "play"
  /\ \/ /\ vlcPlayer' = EnginePlay(vlcPlayer)
        /\ plays' = Add(Rem(plays, g), At(g, "check"))
        /\ UNCHANGED exited
     \/ /\ exited' = LogFatal
        /\ plays' = Rem(plays, g)
        /\ UNCHANGED vlcPlayer
  /\ UNCHANGED <<mpc, Status, AudioToken, CurrentChunk, CurrentTrack, idx,
                 counter, keys, refr, sig, fetches, issued, handed, presses,
                 usedToken, wait, acct, pair, failed,
                 budget>>

\* Line 501: where Play goes after reading status st.
PlayBranch(st) == IF st = PAUSE THEN "pause_eng" ELSE "set"

\* Line 501: the read of rr.Status.
PlayCheck(g) ==
  /\ Running /\ g.pc = "check"
  /\ plays' = Add(Rem(plays, g), At(g, PlayBranch(Status)))
  /\ UNCHANGED <<mpc, exited, Status, AudioToken, CurrentChunk, CurrentTrack,
                 idx, counter, vlcPlayer, keys, refr, sig, fetches, issued, handed,
                 presses, usedToken, wait, acct, pair, failed,
                 budget>>

\* Line 504: p.Status = PLAY, and Play returns.
PlaySet(g) ==
  /\ Running /\ g.pc = "set"
  /\ Status' = PLAY
  /\ pair' = 0
  /\ plays' = Rem(plays, g)
  /\ UNCHANGED <<mpc, exited, AudioToken, CurrentChunk, CurrentTrack, idx,
                 counter, vlcPlayer, keys, refr, sig, fetches, issued, handed,
                 presses, usedToken, wait, acct, failed,
                 budget>>

\* Line 502, p.Pause() called by Play: its engine call (line 511).
PlayPauseEngine(g) ==
  /\ Running /\ g.pc = "pause_eng"
  /\ vlcPlayer' = EngineSetPause(vlcPlayer, TRUE)
  /\ plays' = Add(Rem(plays, g), At(g, "pause_st"))
  /\ UNCHANGED <<mpc, exited, Status, AudioToken, CurrentChunk, CurrentTrack,
                 idx, counter, keys, refr, sig, fetches, issued, handed, presses,
                 usedToken, wait, acct, pair, failed,
                 budget>>

\* Line 502, p.Pause() called by Play: its status write (line 512).
PlayPauseStatus(g) ==
  /\ Running /\ g.pc = "pause_st"
  /\ Status' = PAUSE
  /\ pair' = 0
  /\ plays' = Rem(plays, g)
  /\ UNCHANGED <<mpc, exited, AudioToken, CurrentChunk, CurrentTrack, idx,
                 counter, vlcPlayer, keys, refr, sig, fetches, issued, handed,
                 presses, usedToken, wait, acct, failed,
                 budget>>

\* ------------------------------------------------------ hotkey (359-371)
\* Lines 362-366: which operation a key press starts, given the status read.
ToggleOp(st) == IF st = STOP \/ st = PAUSE THEN "resume" ELSE "pause"

\* The key-press callback: it reads rr.Status and starts go rr.Resume() or
\* go rr.Pause().  The event goroutine runs from line 197 on.
KeyPress ==
  /\ Running /\ mpc \notin {"token", "setup"} /\ Room
  /\ presses' = presses + 1
  /\ keys' = Add(keys, [op |-> ToggleOp(Status), pc |-> "eng"])
  /\ pair' = IF pair = 0
               THEN IF Status = PLAY /\ keys = EmptyBag /\ plays = EmptyBag
                      THEN 1 ELSE 0
               ELSE pair + 1
  /\ UNCHANGED <<mpc, exited, Status, AudioToken, CurrentChunk, CurrentTrack,
                 idx, counter, vlcPlayer, plays, refr, sig, fetches, issued, handed,
                 usedToken, wait, acct, failed,
                 budget>>

\* Pause, line 511: SetPause(true).
PauseEngine(g) ==
  /\ Running /\ g.op = "pause" /\ g.pc = "eng"
  /\ vlcPlayer' = EngineSetPause(vlcPlayer, TRUE)
  /\ keys' = Add(Rem(keys, g), At(g, "st"))
  /\ UNCHANGED <<mpc, exited, Status, AudioToken, CurrentChunk, CurrentTrack,
                 idx, counter, plays, refr, sig, fetches, issued, handed, presses,
                 usedToken, wait, acct, pair, failed,
                 budget>>

\* Pause, line 512: p.Status = PAUSE.
PauseStatus(g) ==
  /\ Running /\ g.op = "pause" /\ g.pc = "st"
  /\ Status' = PAUSE
  /\ keys' = Rem(keys, g)
  /\ UNCHANGED <<mpc, exited, AudioToken, CurrentChunk, CurrentTrack, idx,
                 counter, vlcPlayer, plays, refr, sig, fetches, issued, handed,
                 presses, usedToken, wait, acct, pair, failed,
                 budget>>

\* Resume, line 518: SetPause(false).
ResumeEngine(g) ==
  /\ Running /\ g.op = "resume" /\ g.pc = "eng"
  /\ vlcPlayer' = EngineSetPause(vlcPlayer, FALSE)
  /\ keys' = Add(Rem(keys, g), At(g, "st"))
  /\ UNCHANGED <<mpc, exited, Status, AudioToken, CurrentChunk, CurrentTrack,
                 idx, counter, plays, refr, sig, fetches, issued, handed, presses,
                 usedToken, wait, acct, pair, failed,
                 budget>>

\* Resume, line 519: p.Status = PLAY.
ResumeStatus(g) ==
  /\ Running /\ g.op = "resume" /\ g.pc = "st"
  /\ Status' = PLAY
  /\ keys' = Rem(keys, g)
  /\ UNCHANGED <<mpc, exited, AudioToken, CurrentChunk, CurrentTrack, idx,
                 counter, vlcPlayer, plays, refr, sig, fetches, issued, handed,
                 presses, usedToken, wait, acct, pair, failed,
                 budget>>

\* ----------------------------------- FetchAudioToken goroutine (408-432)
\* Lines 411-428: the request and its answer; a transport failure, an
\* unreadable body or a page without the token is fatal.  The station hands
\* out a new token each time.
RefreshGet(g) ==
  /\ Running /\ g.pc = "get"
  /\ issued' = issued + 1
  /\ \/ /\ refr' = Add(Rem(refr, g), [pc |-> "store", tok |-> NewToken(issued + 1)])
        /\ UNCHANGED <<exited, failed>>
     \/ /\ failed' = TRUE
        /\ exited' = LogFatal
        /\ refr' = Rem(refr, g)
  /\ UNCHANGED <<mpc, Status, AudioToken, CurrentChunk, CurrentTrack, idx,
                 counter, vlcPlayer, plays, keys, sig, fetches, handed, presses,
                 usedToken, wait, acct, pair,
                 budget>>

\* Line 430, p.AudioToken = res[1]: one word of the string is stored.
RefreshStore(g) ==
  /\ Running /\ g.pc = "store"
  /\ \E w \in {"ptr", "len"} :
       /\ AudioToken' = [AudioToken EXCEPT ![w] = g.tok]
       /\ refr' = Add(Rem(refr, g), At(g, IF w = "ptr" THEN "len" ELSE "ptr"))
  /\ UNCHANGED <<mpc, exited, Status, CurrentChunk, CurrentTrack, idx,
                 counter, vlcPlayer, plays, keys, sig, fetches, issued, handed,
                 presses, usedToken, wait, acct, pair, failed,
                 budget>>

\* Line 430: the other word is stored, and FetchAudioToken returns.
RefreshStored(g) ==
  /\ Running /\ g.pc \in {"ptr", "len"}
  /\ AudioToken' = [AudioToken EXCEPT ![g.pc] = g.tok]
  /\ refr' = Rem(refr, g)
  /\ UNCHANGED <<mpc, exited, Status, CurrentChunk, CurrentTrack, idx,
                 counter, vlcPlayer, plays, keys, sig, fetches, issued, handed,
                 presses, usedToken, wait, acct, pair, failed,
                 budget>>

\* ------------------------------------------- signal goroutine (147-152)
\* Line 149: an interrupt or terminate signal is received.
Signal ==
  /\ Running /\ sig = "wait" /\ Room
  /\ sig' = "stop_eng"
  /\ UNCHANGED <<mpc, exited, Status, AudioToken, CurrentChunk, CurrentTrack,
                 idx, counter, vlcPlayer, plays, keys, refr, fetches, issued, handed,
                 presses, usedToken, wait, acct, pair, failed,
                 budget>>

\* Cleanup, line 291: rr.Stop(), its engine call (line 525).
CleanupStopEngine ==
  /\ Running /\ sig = "stop_eng"
  /\ vlcPlayer' = EngineStop(vlcPlayer)
  /\ sig' = "stop_st"
  /\ UNCHANGED <<mpc, exited, Status, AudioToken, CurrentChunk, CurrentTrack,
                 idx, counter, plays, keys, refr, fetches, issued, handed, presses,
                 usedToken, wait, acct, pair, failed,
                 budget>>

\* Cleanup, line 291: rr.Stop(), its status write (line 526).
CleanupStopStatus ==
  /\ Running /\ sig = "stop_st"
  /\ Status' = STOP
  /\ pair' = 0
  /\ sig' = "exit"
  /\ UNCHANGED <<mpc, exited, AudioToken, CurrentChunk, CurrentTrack, idx,
                 counter, vlcPlayer, plays, keys, refr, fetches, issued, handed,
                 presses, usedToken, wait, acct, failed,
                 budget>>

\* Line 151: os.Exit(1).  Nothing deferred runs.
SignalExit ==
  /\ Running /\ sig = "exit"
  /\ exited' = "signal"
  /\ UNCHANGED <<mpc, Status, AudioToken, CurrentChunk, CurrentTrack, idx,
                 counter, vlcPlayer, plays, keys, refr, sig, fetches, issued, handed,
                 presses, usedToken, wait, acct, pair, failed,
                 budget>>

\* ------------------------------------------------------------------ Next
MainStep ==
  \/ StartupToken
  \/ Setup
  \/ FetchChannelInfoCall
  \/ FetchChannelInfoRecv
  \/ TrackStopEngine
  \/ TrackStopStatus
  \/ TrackAssign
  \/ TrackPlay
  \/ SleepTick
  \/ SpawnRefresh
  \/ ReleaseStop
  \/ ReleaseEngine

PlayStep ==
  \E g \in BagToSet(plays) :
    \/ PlayUrl(g)
    \/ PlayLoad(g)
    \/ PlayPlay(g)
    \/ PlayCheck(g)
    \/ PlaySet(g)
    \/ PlayPauseEngine(g)
    \/ PlayPauseStatus(g)

KeyStep ==
  \E g \in BagToSet(keys) :
    \/ PauseEngine(g)
    \/ PauseStatus(g)
    \/ ResumeEngine(g)
    \/ ResumeStatus(g)

RefreshStep ==
  \E g \in BagToSet(refr) :
    \/ RefreshGet(g)
    \/ RefreshStore(g)
    \/ RefreshStored(g)

SignalStep ==
  \/ Signal
  \/ CleanupStopEngine
  \/ CleanupStopStatus
  \/ SignalExit

Next ==
  \/ MainStep
  \/ PlayStep
  \/ KeyStep
  \/ KeyPress
  \/ RefreshStep
  \/ SignalStep

Spec == Init /\ [][Next]_vars

SpecWide == InitWide /\ [][Next]_vars

\* ------------------------------------- runs without keys, signal, failures
\* The tracks a run can start, by the number of their URL.
TrackIds == {UrlOf(f, i) : f \in 1..(MaxEvents + 1), i \in 1..(MaxEvents + 1)}

\* A step of main in which no log.Fatal is reached.
QuietMain == MainStep /\ exited' # "fatal"

\* A step of the Play goroutine of track t in which the engine reports no
\* error.
QuietPlay(t) ==
  \E g \in BagToSet(plays) :
    /\ g.track = t
    /\ \/ PlayUrl(g)
       \/ PlayLoad(g)
       \/ PlayPlay(g)
       \/ PlayCheck(g)
       \/ PlaySet(g)
       \/ PlayPauseEngine(g)
       \/ PlayPauseStatus(g)
    /\ exited' # "fatal"

\* A step of a token refresh whose request succeeds.
QuietRefresh == RefreshStep /\ exited' # "fatal"

NextQuiet ==
  \/ QuietMain
  \/ \E t \in TrackIds : QuietPlay(t)
  \/ QuietRefresh

\* No key press, no signal, no failing fetch or engine command; the scheduler
\* lets main (the loop and the ticks of Sleep) and every Play goroutine run.
SpecQuiet ==
  /\ Init
  /\ [][NextQuiet]_vars
  /\ WF_vars(QuietMain)
  /\ \A t \in TrackIds : WF_vars(QuietPlay(t))

\* ================================================================ claims

\* C1.  For a track of D > 0 whole seconds, Sleep(D) has returned exactly
\* when the ticks at which it read status PLAYING number D: ticks that read
\* PAUSED or STOPPED are not counted, however many there are.
C1_SleepCountsPlayingTicks ==
  wait.len > 0 =>
    /\ wait.ticks <= wait.len
    /\ wait.done <=> wait.ticks = wait.len

\* A wait of a track of positive length that has returned after a tick that
\* read PAUSED.
C1_Witness ==
  /\ wait.len > 0
  /\ wait.done
  /\ wait.paused
  /\ wait.ticks = wait.len

\* C2.  Two key presses in a row, the first at status PLAYING with nothing
\* else in flight, leave status PLAYING once the goroutines they started have
\* finished.
C2_TogglePairKeepsPlaying ==
  (pair = 2 /\ keys = EmptyBag) => Status = PLAY

\* C3.  Between the engine loads of two tracks there is a completed engine
\* stop: no load is issued while the track of an earlier load is still loaded.
C3_StopBetweenLoads ==
  [][(\E g \in BagToSet(plays) : PlayLoad(g) /\ vlcPlayer'.loaded)
       => ~vlcPlayer.loaded]_vars

\* Every track of the chunk has a positive length.
AllPositive(tracks) == \A i \in 1..Len(tracks) : tracks[i].length > 0

\* C4.  When the next chunk is requested, the chunk of n tracks before it
\* (each of a positive length) has had n engine loads and n waits, and its
\* PLAYING ticks total the sum of its lengths.
C4_ChunkAccounting ==
  [][(FetchChannelInfoCall /\ fetches' = fetches + 1 /\ fetches >= 1
        /\ AllPositive(CurrentChunk.Tracks))
       => /\ acct.loads = Len(CurrentChunk.Tracks)
          /\ acct.waits = Len(CurrentChunk.Tracks)
          /\ acct.ticks = CurrentChunk.Length]_vars

\* C5.  The token refresh never blocks the loop: at the top of the loop the
\* chunk request can always be made, with the refresh pending, half done or
\* finished; a refresh in flight can always take its next step; and the
\* request carries the token as it is at the moment of the call.
C5_RefreshNeverBlocksFetch ==
  /\ []((Running /\ mpc = "fetch" /\ Room) => ENABLED FetchChannelInfoCall)
  /\ []((Running /\ refr # EmptyBag) => ENABLED RefreshStep)
  /\ [][fetches' = fetches + 1 => usedToken' = AudioToken]_vars

\* The second chunk request made while the refresh that followed the first
\* chunk has not yet stored its token.
C5_Witness ==
  /\ mpc = "recv"
  /\ fetches = 2
  /\ refr # EmptyBag
  /\ usedToken = Str(1)

\* C6.  Outside a Stop that is between its engine call and its status write,
\* status is PLAYING or PAUSED only while a track is loaded in the engine.
C6_ActiveOnlyWhileLoaded ==
  (mpc # "stop_st" /\ sig # "stop_st" /\ mpc # "released")
    => (Status \in {PLAY, PAUSE} => vlcPlayer.loaded)

\* C7.  When the process exits on a signal, no duration wait is still in
\* flight and the engine has been released.
C7_ShutdownOrder ==
  exited = "signal" => (mpc # "sleep" /\ vlcPlayer.released)

\* C8.  A failed token or chunk fetch ends the process, and from then on no
\* chunk or token request is made and the loop starts no track.
C8_FetchFailureIsFatal ==
  /\ [](failed => exited = "fatal")
  /\ [][failed => /\ fetches' = fetches
                  /\ issued' = issued
                  /\ mpc' = mpc
                  /\ plays' = plays]_vars

\* A token refresh that failed while the loop was waiting on a track of the
\* second chunk.
C8_Witness ==
  /\ failed
  /\ exited = "fatal"
  /\ fetches = 2
  /\ mpc = "sleep"

\* C9.  A pause that arrives while a track is being loaded is not
\* overwritten: Play does not write PLAYING over the status PAUSED.
C9_PauseSurvivesLoad ==
  [][(\E g \in BagToSet(plays) : PlaySet(g)) => Status # PAUSE]_vars

\* C10.  A Pause that executes while status is PAUSED or STOPPED sends the
\* engine no pause command and leaves status as it is.
C10_PauseOnlyFromPlaying ==
  [][/\ (\/ \E g \in BagToSet(keys) : PauseEngine(g)
         \/ \E g \in BagToSet(plays) : PlayPauseEngine(g))
          => Status \notin {PAUSE, STOP}
     /\ (\/ \E g \in BagToSet(keys) : PauseStatus(g)
         \/ \E g \in BagToSet(plays) : PlayPauseStatus(g))
          => (Status \in {PAUSE, STOP} => Status' = Status)]_vars

\* C11.  Status is STOPPED from process start: the first key press, made
\* before any track has been loaded, reads status STOPPED and starts Resume.
C11_StatusStoppedAtStart ==
  [][(KeyPress /\ presses = 0 /\ vlcPlayer.media = Str(0))
       => /\ Status = STOP
          /\ keys' = Add(keys, [op |-> "resume", pc |-> "eng"])]_vars

\* C12.  The URL a Play goroutine hands to the engine is the first asset URL
\* of the track it was started for.
C12_LoadsOwnTrackUrl ==
  [][\A g \in BagToSet(plays) :
       (PlayLoad(g) /\ exited' = exited) => vlcPlayer'.media = Str(g.track)]_vars

\* An engine command issued by a unit other than the Play goroutine g.
OtherEngineCommand(g) ==
  \/ TrackStopEngine
  \/ CleanupStopEngine
  \/ ReleaseStop
  \/ ReleaseEngine
  \/ \E k \in BagToSet(keys) : PauseEngine(k) \/ ResumeEngine(k)
  \/ \E h \in BagToSet(plays) \ {g} :
       PlayLoad(h) \/ PlayPlay(h) \/ PlayPauseEngine(h)

\* C13.  Between the load and the play command of one Play goroutine no
\* other unit issues an engine command.
C13_EngineCommandsSerialized ==
  [][\A g \in BagToSet(plays) : g.pc = "play" => ~OtherEngineCommand(g)]_vars

\* No Play, Pause, Resume or Stop is between its first and its last step.
Quiescent ==
  /\ plays = EmptyBag
  /\ keys = EmptyBag
  /\ mpc # "stop_st"
  /\ sig # "stop_st"

\* C14.  With no operation mid-execution, status is PAUSED exactly when the
\* engine holds a loaded track with its pause flag set, and status PLAYING
\* implies a loaded track that is not paused.
C14_StatusMatchesEngine ==
  Quiescent =>
    /\ Status = PAUSE <=> (vlcPlayer.loaded /\ vlcPlayer.paused)
    /\ Status = PLAY => (vlcPlayer.loaded /\ ~vlcPlayer.paused)

\* The loop holds a fetched chunk with a track still to play or playing.
InChunk == mpc \in {"stop_eng", "stop_st", "track", "play", "sleep"}

\* C15.  The token is never reissued mid-chunk: rr.AudioToken does not change
\* while a track of the fetched chunk is being played or is still to play.
C15_TokenStableWithinChunk ==
  [][InChunk => AudioToken' = AudioToken]_vars

\* C16.  A process that ends on a fatal error has released the engine before
\* it exits.
C16_TeardownOnFatal ==
  exited = "fatal" => vlcPlayer.released

\* A load, play, pause or resume command sent to the engine.
LoadPlayPauseResume ==
  \/ \E k \in BagToSet(keys) : PauseEngine(k) \/ ResumeEngine(k)
  \/ \E h \in BagToSet(plays) :
       PlayLoad(h) \/ PlayPlay(h) \/ PlayPauseEngine(h)

\* C17.  After the engine stop of the shutdown path no load, play, pause or
\* resume command is sent to the engine, and status is STOPPED when the
\* process exits on the signal.
C17_StoppedIsTerminal ==
  /\ [][(sig \in {"stop_st", "exit"}) => ~LoadPlayPauseResume]_vars
  /\ [](exited = "signal" => Status = STOP)

\* C18.  For a track of D > 0 whole seconds, Sleep(D) returns only at a tick
\* at which it read status PLAYING: the loop does not advance past the track
\* while status stays PAUSED or STOPPED.
C18_ReturnsAtPlayingTick ==
  [][(SleepTick /\ wait'.done /\ wait.len > 0) => Status = PLAY]_vars

\* The loop has advanced past the last track of a chunk, a track of positive
\* length whose wait has seen status PAUSED at a tick.
C18_Witness ==
  /\ mpc = "refresh"
  /\ wait.len > 0
  /\ wait.done
  /\ wait.paused

\* C18 as stated, for every D >= 0: Sleep(D) returns only at a tick at which
\* it read status PLAYING.
C18_ReturnsAtPlayingTickAnyLength ==
  [][(SleepTick /\ wait'.done) => Status = PLAY]_vars

\* C19.  Once startup is over, rr.AudioToken is never the empty string, with
\* any number of refreshes pending or half stored, and no chunk fetch takes
\* the branch of the empty-token guard: every call goes on to its request.
C19_TokenNeverEmpty ==
  /\ [](mpc \notin {"token", "setup"} => AudioToken.len # 0)
  /\ [][FetchChannelInfoCall => fetches' = fetches + 1]_vars

\* The third chunk request, made while the refreshes of the first two chunks
\* are both in flight and one of them has stored half of its token.
C19_Witness ==
  /\ mpc = "recv"
  /\ fetches = 3
  /\ BagCardinality(refr) = 2
  /\ AudioToken.ptr # AudioToken.len

\* The Play goroutine started for track t has not yet issued its load.
PendingLoad(t) ==
  \E g \in BagToSet(plays) : g.track = t /\ g.pc \in {"url", "load"}

\* C20.  Without key presses, signal or failures, and with main, the ticks
\* and every Play goroutine scheduled fairly: every Play goroutine started
\* issues its load, the loop gets through every track of a fetched chunk to
\* the end of the chunk, and at the top of the loop the next chunk is
\* requested.
C20_Progress ==
  /\ \A t \in TrackIds : PendingLoad(t) ~> ~PendingLoad(t)
  /\ InChunk ~> mpc = "refresh"
  /\ (mpc = "fetch" /\ Room) ~> mpc = "recv"

\* Every track of the chunk in hand has at least one asset.
AllAssets ==
  \A i \in 1..Len(CurrentChunk.Tracks) : CurrentChunk.Tracks[i].assets

\* C20, for runs in which every track of every chunk has an asset: the same
\* progress.
C20_ProgressWithAssets == ([]AllAssets) => C20_Progress

====
